---- MODULE Spec2Model ----
(***************************************************************************)
(* A model of the shared training loop (common/trainer.py) and of the      *)
(* data-shaping helpers (common/utils.py) of nlp-nnabla.                   *)
(*                                                                         *)
(* Strings are sequences of one-character strings, so that str.replace and *)
(* string concatenation are computed character by character.  A Python     *)
(* dict is an insertion-ordered sequence of <<key, value>> pairs with      *)
(* unique keys.                                                            *)
(***************************************************************************)
EXTENDS Integers, Sequences, FiniteSets, TLC

(***************************************************************************)
(* Bounds of the model.                                                    *)
(***************************************************************************)
\* the number of calls (update_variables, run, evaluate) made on the session
MaxCalls == 2
\* the largest epochs argument of run
MaxEpochs == 2
\* the longest metric name and the largest metric mapping given to _init_metrics
MaxNameLen == 2
MaxMetrics == 2
\* with_padding: the longest sequence, the longest list of sequences and
\* the largest max_sequence_length
MaxSeqLen == 2
MaxSeqs == 2
MaxPadLen == 3
\* vocabulary: the longest file, in characters, and the most calls of
\* load_data
MaxTextLen == 3
MaxLoads == 2

(***************************************************************************)
(* Python dict: d[k] = v, k in d, d[k], iteration in insertion order.      *)
(***************************************************************************)
DictHas(dct, k) == \E i \in DOMAIN dct : dct[i][1] = k

DictGet(dct, k) == dct[CHOOSE i \in DOMAIN dct : dct[i][1] = k][2]

DictSet(dct, k, v) ==
    IF DictHas(dct, k)
    THEN [i \in DOMAIN dct |-> IF dct[i][1] = k THEN <<k, v>> ELSE dct[i]]
    ELSE Append(dct, <<k, v>>)

(***************************************************************************)
(* Strings of the source.                                                  *)
(***************************************************************************)
LossName == <<"l", "o", "s", "s">>
CrossEntropyName == <<"c", "r", "o", "s", "s", " ", "e", "n", "t", "r", "o", "p", "y">>
AccuracyName == <<"a", "c", "c", "u", "r", "a", "c", "y">>
PPLName == <<"P", "P", "L">>

\* 'train' if train else 'valid', preceded by the '-' of trainer.py:180
PhaseSuffix(train) ==
    IF train THEN <<"-", "t", "r", "a", "i", "n">>
             ELSE <<"-", "v", "a", "l", "i", "d">>

\* ' ' in key
HasSpace(key) == \E i \in DOMAIN key : key[i] = " "

\* Variant of ReplaceSpaces: only the first space is replaced.
ReplaceFirstSpace(key) ==
    LET first == CHOOSE j \in DOMAIN key : key[j] = " " /\ \A h \in 1..(j - 1) : key[h] # " "
    IN [j \in DOMAIN key |-> IF j = first THEN "-" ELSE key[j]]

\* key.replace(' ', '-')
ReplaceSpaces(key) == [i \in DOMAIN key |-> IF key[i] = " " THEN "-" ELSE key[i]]

(***************************************************************************)
(* Trainer._init_metrics, the branch for a non-empty mapping: builds the   *)
(* fresh dict ret entry by entry.                                          *)
(***************************************************************************)
SanitizeKey(key) == IF HasSpace(key) THEN ReplaceSpaces(key) ELSE key

RECURSIVE SanitizeFrom(_, _, _)
SanitizeFrom(m, i, ret) ==
    IF i > Len(m) THEN ret
    ELSE SanitizeFrom(m, i + 1, DictSet(ret, SanitizeKey(m[i][1]), m[i][2]))

SanitizedMetrics(m) == SanitizeFrom(m, 1, <<>>)

\* The contents self.metrics has after _init_metrics, given the contents m
\* it had before and the session's loss.
InitMetricsContents(m, l) ==
    IF Len(m) = 0 THEN DictSet(m, LossName, l) ELSE SanitizedMetrics(m)

\* The names _init_metrics reports as colliding, given the contents m and
\* the loss: it has no raise, warning, print or logging statement, an entry
\* written to a key ret already holds replaces the value silently.
InitMetricsFlagged(m, l) == {}

(***************************************************************************)
(* The values of the model.                                                *)
(***************************************************************************)
\* The computations (nn.Variable nodes) a session may use as loss or metric.
Comps == {"f", "g"}

\* The scalar a forward evaluation may leave in a computation's .d.
Vals == {1, 2}

\* What the forward evaluations compute on one batch: the batch fixes the
\* value of every computation.
ForwardValues == {[c \in Comps |-> IF c = "f" THEN v ELSE 3 - v] : v \in Vals}

\* inputs: n = len(self.inputs), dim = self.inputs[0].shape[0]
\* (inputs=[x, t] with x of shape (batch_size, ...) in both scripts).
InputChoices == {[n |-> 2, dim |-> 2]}

\* The metrics mappings of the example scripts (fasttext/train.py:120,
\* lstmlm/train.py:99) and the empty mapping.
MetricMaps ==
    { <<>>,
      << <<CrossEntropyName, "f">>, <<AccuracyName, "g">> >>,
      << <<PPLName, "g">> >> }

StartEpochs == {0, 1}

\* A DataIterator: len(variables), batch_size, size, and the number of
\* batches pulled from it by next() during the current call.
\* size of a DataIterator: no batch, or two batches and a remainder
Sizes == {0, 5}

Sources ==
    [present : {TRUE}, variables : {1, 2}, batch_size : {1, 2},
     size : Sizes, pulled : {0}]

NoSource == [present |-> FALSE, variables |-> 0, batch_size |-> 0, size |-> 0, pulled |-> 0]

\* np.mean of a list of scalars, as the fraction num/den; den = 0 is nan.
RECURSIVE Sum(_)
Sum(xs) == IF Len(xs) = 0 THEN 0 ELSE Head(xs) + Sum(Tail(xs))

Mean(xs) == [num |-> Sum(xs), den |-> Len(xs)]

VARIABLES
    \* the session (fields of Trainer); monitor_series maps a key to the
    \* epoch indices added to its MonitorSeries, in order
    inputs, loss, metricsRef, ownMetrics, defaultMetrics, current_epoch,
    monitor_series,
    \* what it leaves under save_path: image files and checkpoint writes
    figs, checkpoints,
    \* its collaborators during a call: values (.d) of the computations, and
    \* the number of calls made on the solver and on the loss
    d, solver,
    \* the call in progress and its locals
    pc, kind, train_iter, valid_iter, epochs, epoch, train, num_train_batch, num_batch, i,
    metrics_logger, epoch_result,
    \* history: result of the last call, number of calls, the metrics
    \* argument of the last registry initialisation, current_epoch at call
    \* entry, events of the current loop iteration, operations of the last
    \* batch, values of the computations when each batch was recorded, the
    \* MonitorSeries.add calls <<key, index, value>> of the last save_result,
    \* the numbers of EpochResults returned and logged in the call, the
    \* current_epoch the session was constructed with
    outcome, calls, metrics_arg, entry, events, ops, hist, added, produced, logged,
    first_epoch,
    \* a call of with_padding: its arguments and its result
    pad,
    \* a vocabulary (w2i, i2w) and the last load into it: the words read, the
    \* index array built, the value returned, and w2i as it was before
    vocab

sessionVars == <<inputs, loss, metricsRef, ownMetrics, defaultMetrics, current_epoch, monitor_series>>
worldVars == <<figs, checkpoints>>
callVars == <<pc, kind, train_iter, valid_iter, epochs, epoch, train, num_train_batch,
              num_batch, i, metrics_logger, epoch_result,
              d, solver, entry, events, ops, hist, added, produced, logged>>
histVars == <<outcome, calls, metrics_arg, first_epoch>>
vars == <<sessionVars, worldVars, callVars, histVars, pad, vocab>>

\* self.metrics: the dict object the field refers to is either the default
\* argument object of update_variables (trainer.py:59) or an object of its own.
Metrics == IF metricsRef = "default" THEN defaultMetrics ELSE ownMetrics

NoValues == [c \in Comps |-> 1]

NoSolverCalls == [zero_grad |-> 0, backward |-> 0, update |-> 0]

NoResults == [train |-> 0, valid |-> 0]

Phase(tr) == IF tr THEN "train" ELSE "valid"

\* The locals of a call when no call is in progress.
NoCall ==
    /\ pc' = "idle"
    /\ kind' = "none"
    /\ train_iter' = NoSource
    /\ valid_iter' = NoSource
    /\ epochs' = 0
    /\ epoch' = 0
    /\ train' = FALSE
    /\ num_train_batch' = 0
    /\ num_batch' = 0
    /\ i' = 0
    /\ metrics_logger' = <<>>
    /\ epoch_result' = <<>>
    /\ d' = NoValues
    /\ solver' = NoSolverCalls
    /\ entry' = 0
    /\ events' = <<>>
    /\ ops' = <<>>
    /\ hist' = <<>>
    /\ added' = <<>>
    /\ produced' = NoResults
    /\ logged' = NoResults

(***************************************************************************)
(* with_padding (utils.py:112-130).                                        *)
(***************************************************************************)
Elems == {1, 2}

PadTypes == {"post", "pre", "mid"}

\* max_sequence_length: None, or an int
PadLengths ==
    {[given |-> FALSE, value |-> 0]} \cup [given : {TRUE}, value : 0..MaxPadLen]

SeqsUpTo(n) == UNION {[1..k -> Elems] : k \in 0..n}

SeqLists == UNION {[1..k -> SeqsUpTo(MaxSeqLen)] : k \in 0..MaxSeqs}

NoPadResult == [status |-> "none", rows |-> <<>>]

NoPad == [pc |-> "none", sequences |-> <<>>, padding_type |-> "post",
          max_sequence_length |-> [given |-> FALSE, value |-> 0], result |-> NoPadResult]

\* max(map(lambda x: len(x), sequences)), for a non-empty list
MaxLenOf(seqs) ==
    CHOOSE n \in {Len(seqs[k]) : k \in DOMAIN seqs} :
        \A k \in DOMAIN seqs : Len(seqs[k]) <= n

\* Variant of Truncate: the last n elements are kept.
TruncateTail(sequence, n) ==
    SubSeq(sequence, IF Len(sequence) < n THEN 1 ELSE Len(sequence) - n + 1, Len(sequence))

\* sequence[:n], n >= 0
Truncate(sequence, n) ==
    SubSeq(sequence, 1, IF Len(sequence) < n THEN Len(sequence) ELSE n)

Zeros(n) == [j \in 1..n |-> 0]

\* _with_padding: the padded row, or no row when the padding type is
\* neither 'post' nor 'pre' and the exception is raised
PadOne(sequence, padding_type, n) ==
    LET t == Truncate(sequence, n)
        pad_length == n - Len(t)
    IN IF padding_type = "post" THEN [ok |-> TRUE, row |-> t \o Zeros(pad_length)]
       ELSE IF padding_type = "pre" THEN [ok |-> TRUE, row |-> Zeros(pad_length) \o t]
       ELSE [ok |-> FALSE, row |-> <<>>]

WithPaddingResult(sequences, padding_type, msl) ==
    IF ~msl.given /\ Len(sequences) = 0
        THEN [status |-> "ValueError", rows |-> <<>>]
    ELSE IF msl.given /\ ~(msl.value > 0)
        THEN [status |-> "AssertionError", rows |-> <<>>]
    ELSE LET n == IF msl.given THEN msl.value ELSE MaxLenOf(sequences)
             rows == [k \in DOMAIN sequences |-> PadOne(sequences[k], padding_type, n)]
         IN IF \E k \in DOMAIN rows : ~rows[k].ok
            THEN [status |-> "Exception", rows |-> <<>>]
            ELSE [status |-> "returned", rows |-> [k \in DOMAIN rows |-> rows[k].row]]

WithPadding ==
    /\ pad.pc = "call"
    /\ pad' = [pad EXCEPT !.pc = "done",
                          !.result = WithPaddingResult(pad.sequences, pad.padding_type,
                                                       pad.max_sequence_length)]
    /\ UNCHANGED <<sessionVars, worldVars, callVars, histVars, vocab>>

(***************************************************************************)
(* Vocabulary building: PTBDataset (utils.py:27-91) and load_data          *)
(* (lstmlm.py:43-60).  A word is the sequence of its characters.           *)
(***************************************************************************)
PadWord == <<"p", "a", "d">>
EosWord == <<"<", "e", "o", "s", ">">>
BosWord == <<"<", "b", "o", "s", ">">>

\* .replace('\n', '<eos>')
RECURSIVE ReplaceNewlines(_)
ReplaceNewlines(text) ==
    IF Len(text) = 0 THEN <<>>
    ELSE (IF Head(text) = "\n" THEN EosWord ELSE <<Head(text)>>)
         \o ReplaceNewlines(Tail(text))

\* .strip(): no whitespace at either end (the newlines are replaced by then)
RECURSIVE Strip(_)
Strip(text) ==
    IF Len(text) = 0 THEN text
    ELSE IF Head(text) = " " THEN Strip(Tail(text))
    ELSE IF text[Len(text)] = " " THEN Strip(SubSeq(text, 1, Len(text) - 1))
    ELSE text

\* .split(): the maximal runs without whitespace, in order
RECURSIVE SplitFrom(_, _, _, _)
SplitFrom(text, k, word, words) ==
    IF k > Len(text) THEN (IF word = <<>> THEN words ELSE Append(words, word))
    ELSE IF text[k] = " "
         THEN SplitFrom(text, k + 1, <<>>, IF word = <<>> THEN words ELSE Append(words, word))
         ELSE SplitFrom(text, k + 1, Append(word, text[k]), words)

\* words = f.read().replace('\n', '<eos>').strip().split()
Words(text) == SplitFrom(Strip(ReplaceNewlines(text)), 1, <<>>, <<>>)

\* Variant of NewIndex: the size of the dict after the word is in it.
NewIndexAfterInsert(w2i) == Len(w2i) + 1

\* len(self.w2i), evaluated before the word is stored
NewIndex(w2i) == Len(w2i)

\* The loop over enumerate(words) (utils.py:71-76, lstmlm.py:54-59) from
\* the k-th word on; st = [w2i, i2w, dataset].
RECURSIVE IndexFrom(_, _, _)
IndexFrom(words, k, st) ==
    IF k > Len(words) THEN st
    ELSE LET word == words[k]
             w2i1 == IF DictHas(st.w2i, word) THEN st.w2i
                     ELSE DictSet(st.w2i, word, NewIndex(st.w2i))
             idx  == DictGet(w2i1, word)
             i2w1 == IF DictHas(st.i2w, idx) THEN st.i2w ELSE DictSet(st.i2w, idx, word)
         IN IndexFrom(words, k + 1,
                      [w2i |-> w2i1, i2w |-> i2w1, dataset |-> Append(st.dataset, idx)])

\* sentence = [], followed by the <bos> index when with_bos
NewSentence(w2i, with_bos) == IF with_bos THEN <<DictGet(w2i, BosWord)>> ELSE <<>>

\* The loop over dataset of _load_data (utils.py:82-90) from its k-th
\* element on; a sentence not closed by <eos> is not appended.
RECURSIVE SentencesFrom(_, _, _, _, _, _, _)
SentencesFrom(dataset, k, w2i, i2w, with_bos, sentence, sentences) ==
    IF k > Len(dataset) THEN sentences
    ELSE IF DictGet(i2w, dataset[k]) # EosWord
         THEN SentencesFrom(dataset, k + 1, w2i, i2w, with_bos,
                            Append(sentence, dataset[k]), sentences)
         ELSE SentencesFrom(dataset, k + 1, w2i, i2w, with_bos,
                            NewSentence(w2i, with_bos),
                            Append(sentences, Append(sentence, dataset[k])))

Sentences(dataset, w2i, i2w, with_bos) ==
    SentencesFrom(dataset, 1, w2i, i2w, with_bos, NewSentence(w2i, with_bos), <<>>)

\* No vocabulary exists.
NoVocab == [kind |-> "none", with_bos |-> FALSE, w2i |-> <<>>, i2w |-> <<>>, loads |-> 0,
            words |-> <<>>, dataset |-> <<>>, returned |-> <<>>, before |-> <<>>]

\* lstmlm.py:43-47: the module's w2i and i2w before the first load_data.
ModuleVocab ==
    [NoVocab EXCEPT !.kind = "lstmlm",
                    !.w2i = << <<PadWord, 0>> >>,
                    !.i2w = << <<0, PadWord>> >>,
                    !.before = << <<PadWord, 0>> >>]

\* PTBDataset.__post_init__ up to its first _load_data (utils.py:37-48),
\* w2i and i2w being the empty dicts of default_factory.
DatasetVocab(with_bos) ==
    LET w2i == << <<PadWord, 0>>, <<EosWord, 1>> >> \o
               (IF with_bos THEN << <<BosWord, 2>> >> ELSE <<>>)
    IN [NoVocab EXCEPT !.kind = "ptb",
                       !.with_bos = with_bos,
                       !.w2i = w2i,
                       !.i2w = [k \in DOMAIN w2i |-> <<w2i[k][2], w2i[k][1]>>],
                       !.before = w2i]

\* The characters of a file and the files read.
Chars == {"a", " ", "\n"}

Texts == UNION {[1..k -> Chars] : k \in 0..MaxTextLen}

\* The loads of PTBDataset.__post_init__: train, valid, test (utils.py:52-54).
DatasetLoads == 3

\* One load: PTBDataset._load_data (utils.py:56-91), returning the
\* sentences, or load_data (lstmlm.py:49-60), returning the index array.
LoadData ==
    /\ vocab.kind # "none"
    /\ vocab.loads < (IF vocab.kind = "ptb" THEN DatasetLoads ELSE MaxLoads)
    /\ \E text \in Texts :
          LET words == Words(text)
              st == IndexFrom(words, 1, [w2i |-> vocab.w2i, i2w |-> vocab.i2w,
                                         dataset |-> <<>>])
          IN vocab' = [vocab EXCEPT
                          !.w2i = st.w2i,
                          !.i2w = st.i2w,
                          !.loads = @ + 1,
                          !.words = words,
                          !.dataset = st.dataset,
                          !.returned = IF vocab.kind = "ptb"
                                       THEN Sentences(st.dataset, st.w2i, st.i2w,
                                                      vocab.with_bos)
                                       ELSE st.dataset,
                          !.before = vocab.w2i]
    /\ UNCHANGED <<sessionVars, worldVars, callVars, histVars, pad>>

(***************************************************************************)
(* Trainer(...): the fields as the dataclass sets them, before             *)
(* __post_init__.  An omitted metrics argument is a fresh empty dict       *)
(* (default_factory), a given one is the caller's dict.                    *)
(***************************************************************************)
NewSession(maps, starts) ==
    /\ inputs \in InputChoices
    /\ loss \in Comps
    /\ \E m \in maps :
        /\ ownMetrics = m
        /\ metrics_arg = [omitted |-> FALSE, map |-> m]
    /\ metricsRef = "own"
    /\ defaultMetrics = <<>>
    /\ current_epoch \in starts
    /\ monitor_series = <<>>
    /\ d = NoValues
    /\ solver = NoSolverCalls
    /\ figs = {}
    /\ checkpoints = <<>>
    /\ pc = "new"
    /\ kind = "none"
    /\ train_iter = NoSource
    /\ valid_iter = NoSource
    /\ epochs = 0
    /\ epoch = 0
    /\ train = FALSE
    /\ num_train_batch = 0
    /\ num_batch = 0
    /\ i = 0
    /\ metrics_logger = <<>>
    /\ epoch_result = <<>>
    /\ outcome = "running"
    /\ calls = 0
    /\ entry = 0
    /\ events = <<>>
    /\ ops = <<>>
    /\ hist = <<>>
    /\ added = <<>>
    /\ produced = NoResults
    /\ logged = NoResults
    /\ first_epoch = current_epoch

Init == NewSession(MetricMaps, StartEpochs) /\ pad = NoPad /\ vocab = NoVocab

\* Trainer.__post_init__ (trainer.py:41-44)
PostInit ==
    /\ pc = "new"
    /\ ownMetrics' = InitMetricsContents(ownMetrics, loss)
    /\ pc' = "idle"
    /\ outcome' = "constructed"
    /\ UNCHANGED <<inputs, loss, metricsRef, defaultMetrics, current_epoch, monitor_series,
                   worldVars, kind, train_iter, valid_iter, epochs, epoch, train, num_train_batch, num_batch,
                   i, metrics_logger, epoch_result, d, solver, entry, events, ops, hist,
                   added, produced, logged, calls, metrics_arg, first_epoch, pad, vocab>>

(***************************************************************************)
(* Trainer.update_variables.  With the metrics argument omitted,           *)
(* self.metrics is the default argument object, which _init_metrics        *)
(* changes in place when it is empty.                                      *)
(***************************************************************************)
UpdateVariables ==
    /\ pc = "idle"
    /\ calls < MaxCalls
    /\ \E inp \in InputChoices, l \in Comps :
        /\ inputs' = inp
        /\ loss' = l
        /\ \/ \* metrics omitted
              /\ metrics_arg' = [omitted |-> TRUE, map |-> <<>>]
              /\ IF Len(defaultMetrics) = 0
                 THEN /\ defaultMetrics' = InitMetricsContents(defaultMetrics, l)
                      /\ metricsRef' = "default"
                      /\ ownMetrics' = <<>>
                 ELSE /\ ownMetrics' = InitMetricsContents(defaultMetrics, l)
                      /\ metricsRef' = "own"
                      /\ UNCHANGED defaultMetrics
           \/ \* metrics given
              \E m \in MetricMaps :
                /\ metrics_arg' = [omitted |-> FALSE, map |-> m]
                /\ ownMetrics' = InitMetricsContents(m, l)
                /\ metricsRef' = "own"
                /\ UNCHANGED defaultMetrics
    /\ outcome' = "returned"
    /\ calls' = calls + 1
    /\ UNCHANGED <<current_epoch, monitor_series, worldVars, callVars, first_epoch, pad, vocab>>

\* Variant of RunCheck: the validation source is not checked.
RunCheckTrainOnly(inp, tr, va) ==
    IF tr.variables # inp.n THEN "AssertionError"
    ELSE IF inp.n = 0 THEN "IndexError"
    ELSE IF tr.batch_size # inp.dim THEN "AssertionError"
    ELSE IF inp.dim = 0 THEN "ZeroDivisionError"
    ELSE "ok"

(***************************************************************************)
(* The checks Trainer.run makes before its loop (trainer.py:67-78), in the *)
(* order of the code: "ok", or the exception raised.                       *)
(***************************************************************************)
RunCheck(inp, tr, va) ==
    IF tr.variables # inp.n THEN "AssertionError"
    ELSE IF va.present /\ va.variables # inp.n THEN "AssertionError"
    ELSE IF inp.n = 0 THEN "IndexError"
    ELSE IF tr.batch_size # inp.dim THEN "AssertionError"
    ELSE IF va.present /\ va.batch_size # inp.dim THEN "AssertionError"
    ELSE IF inp.dim = 0 THEN "ZeroDivisionError"
    ELSE "ok"

\* The checks of Trainer.evaluate (trainer.py:103-108).
EvaluateCheck(inp, va) ==
    IF va.variables # inp.n THEN "AssertionError"
    ELSE IF inp.n = 0 THEN "IndexError"
    ELSE IF va.batch_size # inp.dim THEN "AssertionError"
    ELSE IF inp.dim = 0 THEN "ZeroDivisionError"
    ELSE "ok"

\* Variant of LoopEnd: range(self.current_epoch, epochs).
LoopEndNoOffset(ce0, e) == e

\* iterator.size // batch_size (trainer.py:78, 84, 108)
NumBatch(it, dim) == it.size \div dim

\* range(self.current_epoch, epochs + self.current_epoch): its end, fixed
\* when the loop is entered (trainer.py:79)
LoopEnd(ce0, e) == e + ce0

\* the epoch argument evaluate passes to _run_one_epoch (trainer.py:109)
EvaluateEpoch(ce) == ce - 1

\* An event of a call: what happened, in which phase, with which epoch
\* number (epoch argument, series index, file number, new counter value),
\* and the value of current_epoch at that moment.
Event(name, tr, n, ce) == [ev |-> name, train |-> tr, epoch |-> n, at |-> ce]

(***************************************************************************)
(* Trainer.run, up to the first iteration of its loop.                     *)
(***************************************************************************)
RunBegin ==
    /\ pc = "idle"
    /\ calls < MaxCalls
    /\ \E tr \in Sources, va \in Sources \cup {NoSource}, e \in 0..MaxEpochs :
        LET chk == RunCheck(inputs, tr, va) IN
        /\ kind' = "run"
        /\ train_iter' = tr
        /\ valid_iter' = va
        /\ IF chk # "ok"
           THEN /\ pc' = "raise"
                /\ outcome' = chk
                /\ UNCHANGED <<epochs, epoch, train, num_train_batch>>
           ELSE /\ epochs' = e
                /\ epoch' = current_epoch
                /\ train' = TRUE
                /\ num_train_batch' = NumBatch(tr, inputs.dim)
                /\ pc' = IF current_epoch < LoopEnd(current_epoch, e) THEN "epoch" ELSE "return"
                /\ outcome' = "running"
    /\ entry' = current_epoch
    /\ calls' = calls + 1
    /\ UNCHANGED <<sessionVars, worldVars, num_batch, i, metrics_logger, epoch_result, d,
                   solver, events, ops, hist, added, produced, logged, metrics_arg,
                   first_epoch, pad, vocab>>

(***************************************************************************)
(* Trainer.evaluate, up to its call of _run_one_epoch.                     *)
(***************************************************************************)
EvaluateBegin ==
    /\ pc = "idle"
    /\ calls < MaxCalls
    /\ \E va \in Sources :
        LET chk == EvaluateCheck(inputs, va) IN
        /\ kind' = "evaluate"
        /\ valid_iter' = va
        /\ IF chk # "ok"
           THEN /\ pc' = "raise"
                /\ outcome' = chk
                /\ UNCHANGED <<epoch, num_batch>>
           ELSE /\ epoch' = EvaluateEpoch(current_epoch)
                /\ num_batch' = NumBatch(va, inputs.dim)
                /\ pc' = "epoch"
                /\ outcome' = "running"
    /\ entry' = current_epoch
    /\ calls' = calls + 1
    /\ UNCHANGED <<sessionVars, worldVars, train_iter, epochs, train, num_train_batch, i,
                   metrics_logger,
                   epoch_result, d, solver, events, ops, hist, added, produced, logged,
                   metrics_arg, first_epoch, pad, vocab>>

(***************************************************************************)
(* Trainer._init_metrics_logger: one empty list per registered metric.     *)
(***************************************************************************)
RECURSIVE InitLoggerFrom(_, _, _)
InitLoggerFrom(reg, k, logger) ==
    IF k > Len(reg) THEN logger
    ELSE InitLoggerFrom(reg, k + 1, DictSet(logger, reg[k][1], <<>>))

InitMetricsLogger(reg) == InitLoggerFrom(reg, 1, <<>>)

(***************************************************************************)
(* _run_one_epoch, entry (trainer.py:143-147).                             *)
(***************************************************************************)
EpochBegin ==
    /\ pc = "epoch"
    /\ metrics_logger' = InitMetricsLogger(Metrics)
    /\ i' = 0
    /\ num_batch' = IF kind = "evaluate" THEN num_batch
                    ELSE IF train THEN num_train_batch
                    ELSE NumBatch(valid_iter, inputs.dim)
    /\ events' = Append(events, Event("epoch", Phase(train), epoch, current_epoch))
    /\ hist' = <<>>
    /\ pc' = "batch"
    /\ UNCHANGED <<sessionVars, worldVars, kind, train_iter, valid_iter, epochs, epoch,
                   train, num_train_batch, epoch_result, d, solver, entry, ops, added,
                   produced, logged, histVars, pad, vocab>>

(***************************************************************************)
(* One batch of _run_one_epoch (trainer.py:148-168) as the list of the     *)
(* calls it makes on its collaborators, in order.                          *)
(***************************************************************************)
Op(name, c) == <<name, c>>

\* for metric in list(self.metrics.values()): metric.forward()
ForwardOps(reg) == [k \in 1..Len(reg) |-> Op("forward", reg[k][2])]

\* Variant of LossForward: the loss is evaluated in every training batch.
LossForwardAlways(reg, l) == TRUE

\* loss_forward of trainer.py:157-160: no registered metric is self.loss
LossForward(reg, l) == ~ \E k \in 1..Len(reg) : reg[k][2] = l

TrainOps(reg, l) ==
    (IF LossForward(reg, l) THEN <<Op("forward", l)>> ELSE <<>>)
    \o <<Op("zero_grad", ""), Op("backward", l), Op("update", "")>>

\* Variant of BatchOps: the update cycle is run whatever train is.
BatchOpsAlwaysTrain(reg, l, tr) ==
    <<Op("next", "")>> \o ForwardOps(reg) \o TrainOps(reg, l)

BatchOps(reg, l, tr) ==
    <<Op("next", "")>> \o ForwardOps(reg) \o (IF tr THEN TrainOps(reg, l) ELSE <<>>)

\* The effect of one call on st = [pulled, d, solver]; nd[c] is the value
\* a forward evaluation of c produces on this batch.
StepOp(st, op, nd) ==
    CASE op[1] = "next" -> [st EXCEPT !.pulled = @ + 1]
      [] op[1] = "forward" -> [st EXCEPT !.d[op[2]] = nd[op[2]]]
      [] op[1] = "zero_grad" -> [st EXCEPT !.solver.zero_grad = @ + 1]
      [] op[1] = "backward" -> [st EXCEPT !.solver.backward = @ + 1]
      [] op[1] = "update" -> [st EXCEPT !.solver.update = @ + 1]

RECURSIVE ExecOps(_, _, _)
ExecOps(st, os, nd) ==
    IF Len(os) = 0 THEN st ELSE ExecOps(StepOp(st, Head(os), nd), Tail(os), nd)

\* Variant of RecordValue: metrics[key].d without copy() records the array.
RecordReference(c, dd) == [byref |-> TRUE, comp |-> c, val |-> 0]

\* metrics[key].d.copy(): the value is recorded, not the array holding it.
RecordValue(c, dd) == [byref |-> FALSE, comp |-> c, val |-> dd[c]]

\* What a recorded entry reads as when d holds dd.
Deref(e, dd) == IF e.byref THEN dd[e.comp] ELSE e.val

\* for key in self.metrics: metrics_logger[key].append(...)
RECURSIVE RecordFrom(_, _, _, _)
RecordFrom(reg, k, logger, dd) ==
    IF k > Len(reg) THEN logger
    ELSE RecordFrom(reg, k + 1,
                    DictSet(logger, reg[k][1],
                            Append(DictGet(logger, reg[k][1]), RecordValue(reg[k][2], dd))),
                    dd)

Iterator == IF train THEN train_iter ELSE valid_iter

SetIterator(it) ==
    IF train THEN train_iter' = it /\ UNCHANGED valid_iter
             ELSE valid_iter' = it /\ UNCHANGED train_iter

Batch ==
    /\ pc = "batch"
    /\ i < num_batch
    /\ \E nd \in ForwardValues :
        LET os == BatchOps(Metrics, loss, train)
            st == ExecOps([pulled |-> Iterator.pulled, d |-> d, solver |-> solver], os, nd)
        IN /\ SetIterator([Iterator EXCEPT !.pulled = st.pulled])
           /\ d' = st.d
           /\ solver' = st.solver
           /\ ops' = os
           /\ metrics_logger' = RecordFrom(Metrics, 1, metrics_logger, st.d)
           /\ hist' = Append(hist, [c \in {Metrics[k][2] : k \in 1..Len(Metrics)} |-> st.d[c]])
    /\ i' = i + 1
    /\ UNCHANGED <<sessionVars, worldVars, pc, kind, epochs, epoch, train,
                   num_train_batch, num_batch, epoch_result, entry, events, added, produced, logged, histVars, pad, vocab>>

\* Variant of Executed: the raising call takes effect as well.
ExecutedWithRaising(os, k) == SubSeq(os, 1, k)

\* The calls of a batch that have taken effect when its k-th call raises.
Executed(os, k) == SubSeq(os, 1, k - 1)

\* A call of the batch raises: the calls before it have taken effect and
\* nothing after it is executed.
BatchFails ==
    /\ pc = "batch"
    /\ i < num_batch
    /\ \E nd \in ForwardValues :
        LET os == BatchOps(Metrics, loss, train) IN
        \E k \in 1..Len(os) :
            LET st == ExecOps([pulled |-> Iterator.pulled, d |-> d, solver |-> solver],
                              Executed(os, k), nd)
            IN /\ SetIterator([Iterator EXCEPT !.pulled = st.pulled])
               /\ d' = st.d
               /\ solver' = st.solver
               /\ ops' = SubSeq(os, 1, k)
    /\ pc' = "raise"
    /\ outcome' = "Exception"
    /\ UNCHANGED <<sessionVars, worldVars, kind, epochs, epoch, train, num_train_batch, num_batch, i,
                   metrics_logger, epoch_result, entry, events, hist, added, produced,
                   logged, calls, metrics_arg, first_epoch, pad, vocab>>

\* The exception leaves _run_one_epoch and run or evaluate, which catch nothing.
Raise ==
    /\ pc = "raise"
    /\ NoCall
    /\ UNCHANGED <<sessionVars, worldVars, histVars, pad, vocab>>

(***************************************************************************)
(* _run_one_epoch, after the last batch (trainer.py:178-182).              *)
(***************************************************************************)
RECURSIVE DerefAll(_, _)
DerefAll(es, dd) == IF Len(es) = 0 THEN <<>> ELSE <<Deref(Head(es), dd)>> \o DerefAll(Tail(es), dd)

RECURSIVE EpochResultFrom(_, _, _, _, _)
EpochResultFrom(logger, k, tr, dd, res) ==
    IF k > Len(logger) THEN res
    ELSE EpochResultFrom(logger, k + 1, tr, dd,
                         DictSet(res, logger[k][1] \o PhaseSuffix(tr),
                                 Mean(DerefAll(logger[k][2], dd))))

EpochResult(logger, tr, dd) == EpochResultFrom(logger, 1, tr, dd, <<>>)

EpochEnd ==
    /\ pc = "batch"
    /\ i = num_batch
    /\ epoch_result' = EpochResult(metrics_logger, train, d)
    /\ pc' = "save_result"
    /\ produced' = [produced EXCEPT ![Phase(train)] = @ + 1]
    /\ UNCHANGED <<sessionVars, worldVars, kind, train_iter, valid_iter, epochs, epoch, train,
                   num_train_batch, num_batch, i, metrics_logger, d, solver, entry, events, ops, hist, added,
                   logged, histVars, pad, vocab>>

(***************************************************************************)
(* Trainer.save_result (trainer.py:93-100), called by run and evaluate.    *)
(***************************************************************************)
\* Variant of SeriesIndex: evaluate is ignored.
SeriesIndexAlwaysNext(ce, evaluate) == ce + 1

SeriesIndex(ce, evaluate) == IF evaluate THEN ce ELSE ce + 1

RECURSIVE SaveResultFrom(_, _, _, _)
SaveResultFrom(series, res, k, idx) ==
    IF k > Len(res) THEN series
    ELSE LET key == res[k][1]
             s1 == IF DictHas(series, key) THEN series ELSE DictSet(series, key, <<>>)
         IN SaveResultFrom(DictSet(s1, key, Append(DictGet(s1, key), idx)),
                           res, k + 1, idx)

\* The add calls save_result makes: series key, epoch index, value.
AddCalls(res, idx) == [k \in 1..Len(res) |-> <<res[k][1], idx, res[k][2]>>]

SaveResult ==
    /\ pc = "save_result"
    /\ monitor_series' = SaveResultFrom(monitor_series, epoch_result, 1,
                                        SeriesIndex(current_epoch, kind = "evaluate"))
    /\ events' = Append(events, Event("save_result", Phase(train),
                                      SeriesIndex(current_epoch, kind = "evaluate"), current_epoch))
    /\ logged' = [logged EXCEPT ![Phase(train)] = @ + 1]
    /\ IF kind = "run" /\ train /\ valid_iter.present
       THEN train' = FALSE /\ pc' = "epoch"
       ELSE UNCHANGED train /\ pc' = "save_fig"
    /\ added' = AddCalls(epoch_result, SeriesIndex(current_epoch, kind = "evaluate"))
    /\ UNCHANGED <<inputs, loss, metricsRef, ownMetrics, defaultMetrics, current_epoch,
                   worldVars, kind, train_iter, valid_iter, epochs, epoch, num_train_batch, num_batch, i,
                   metrics_logger, epoch_result, d, solver, entry, ops, hist, produced,
                   histVars, pad, vocab>>

(***************************************************************************)
(* Trainer.save_fig (trainer.py:113-130): the metrics whose image is       *)
(* written.                                                                *)
(***************************************************************************)
Plotted(reg, series) ==
    {reg[k][1] : k \in {j \in 1..Len(reg) :
        \/ DictHas(series, reg[j][1] \o PhaseSuffix(TRUE))
        \/ DictHas(series, reg[j][1] \o PhaseSuffix(FALSE))}}

SaveFig ==
    /\ pc = "save_fig"
    /\ figs' = figs \cup Plotted(Metrics, monitor_series)
    /\ events' = Append(events, Event("save_fig", "", current_epoch, current_epoch))
    /\ pc' = IF kind = "run" THEN "snapshot" ELSE "return"
    /\ UNCHANGED <<sessionVars, d, solver, checkpoints, kind, train_iter, valid_iter, epochs,
                   epoch, train, num_train_batch, num_batch, i, metrics_logger, epoch_result,
                   entry, ops, hist, added, produced, logged, histVars, pad, vocab>>

(***************************************************************************)
(* Trainer.snapshot (trainer.py:132-134): the epoch number of the file.    *)
(***************************************************************************)
\* Variant of SnapshotNumber: the file is named after the epoch index.
SnapshotEpochIndex(ce) == ce

SnapshotNumber(ce) == ce + 1

Snapshot ==
    /\ pc = "snapshot"
    /\ checkpoints' = Append(checkpoints, SnapshotNumber(current_epoch))
    /\ events' = Append(events, Event("snapshot", "", SnapshotNumber(current_epoch), current_epoch))
    /\ pc' = "incr"
    /\ UNCHANGED <<sessionVars, d, solver, figs, kind, train_iter, valid_iter, epochs,
                   epoch, train, num_train_batch, num_batch, i, metrics_logger, epoch_result,
                   entry, ops, hist, added, produced, logged, histVars, pad, vocab>>

(***************************************************************************)
(* self.current_epoch += 1 and the next value of the loop variable         *)
(* (trainer.py:79, 91).                                                    *)
(***************************************************************************)
\* Variant of NextEpoch: the counter is advanced twice.
NextEpochTwice(ce) == ce + 2

NextEpoch(ce) == ce + 1

Increment ==
    /\ pc = "incr"
    /\ current_epoch' = NextEpoch(current_epoch)
    /\ events' = Append(events, Event("increment", "", NextEpoch(current_epoch), current_epoch))
    /\ IF epoch + 1 < LoopEnd(entry, epochs)
       THEN /\ epoch' = epoch + 1
            /\ train' = TRUE
            /\ pc' = "epoch"
       ELSE /\ UNCHANGED <<epoch, train>>
            /\ pc' = "return"
    /\ UNCHANGED <<inputs, loss, metricsRef, ownMetrics, defaultMetrics, monitor_series,
                   worldVars, kind, train_iter, valid_iter, epochs, num_train_batch,
                   num_batch, i, metrics_logger, epoch_result, d, solver, entry, ops, hist,
                   added, produced, logged, histVars, pad, vocab>>

\* run or evaluate returns to its caller.
Return ==
    /\ pc = "return"
    /\ NoCall
    /\ outcome' = "returned"
    /\ UNCHANGED <<sessionVars, worldVars, calls, metrics_arg, first_epoch, pad, vocab>>

Next ==
    \/ PostInit
    \/ UpdateVariables
    \/ RunBegin
    \/ EvaluateBegin
    \/ EpochBegin
    \/ Batch
    \/ BatchFails
    \/ Raise
    \/ EpochEnd
    \/ SaveResult
    \/ SaveFig
    \/ Snapshot
    \/ Increment
    \/ Return

\* A session, from its construction on.
Spec == Init /\ [][Next]_vars

(***************************************************************************)
(* The metric registry on bounded mappings: names over a letter, the space *)
(* and the hyphen.                                                         *)
(***************************************************************************)
Alphabet == {"a", " ", "-"}

Names == UNION {[1..k -> Alphabet] : k \in 0..MaxNameLen}

NamedMaps ==
    UNION {{m \in [1..k -> Names \X Comps] :
                \A x, y \in 1..k : x # y => m[x][1] # m[y][1]} : k \in 0..MaxMetrics}

InitMetrics == NewSession(NamedMaps, {0}) /\ pad = NoPad /\ vocab = NoVocab

NextMetrics == PostInit

SpecMetrics == InitMetrics /\ [][NextMetrics]_vars

(***************************************************************************)
(* with_padding on bounded arguments.                                      *)
(***************************************************************************)
InitPad ==
    /\ NewSession({<<>>}, {0})
    /\ vocab = NoVocab
    /\ pad \in [pc : {"call"}, sequences : SeqLists, padding_type : PadTypes,
                max_sequence_length : PadLengths, result : {NoPadResult}]

NextPad == WithPadding

SpecPad == InitPad /\ [][NextPad]_vars

(***************************************************************************)
(* Vocabulary building on bounded files.                                   *)
(***************************************************************************)
InitVocab ==
    /\ NewSession({<<>>}, {0})
    /\ pad = NoPad
    /\ loss = "f"
    /\ vocab \in {ModuleVocab, DatasetVocab(FALSE), DatasetVocab(TRUE)}

NextVocab == LoadData

SpecVocab == InitVocab /\ [][NextVocab]_vars

(***************************************************************************)
(* Properties.                                                             *)
(***************************************************************************)
BatchesOf(it) == it.size \div it.batch_size

\* C1: when a call of run with epochs = E returns, it has made exactly B*E
\* calls of each of zero_grad, backward and update (B = size // batch_size
\* of the training source), has produced and logged exactly E training
\* EpochResults, and current_epoch is E more than at the call.
C1_RunCounts ==
    (pc = "return" /\ kind = "run") =>
        LET n == BatchesOf(train_iter) * epochs IN
        /\ solver = [zero_grad |-> n, backward |-> n, update |-> n]
        /\ train_iter.pulled = n
        /\ produced.train = epochs
        /\ logged.train = epochs
        /\ current_epoch = entry + epochs

C1_Witness ==
    /\ pc = "return"
    /\ kind = "run"
    /\ epochs = 2
    /\ entry = 1
    /\ BatchesOf(train_iter) = 2
    /\ solver.update = 4

SourceMismatch(inp, it) ==
    it.present /\ (it.variables # inp.n \/ it.batch_size # inp.dim)

Persistent == <<sessionVars, worldVars>>

\* C2: a call of run whose training source or present validation source
\* has a variable count other than the number of inputs, or a batch size
\* other than the leading dimension of the first input, raises before a
\* batch is pulled from either source: no solver call, no series entry, no
\* plot and no checkpoint is made, and current_epoch stays as it is, also
\* while the exception leaves run.
C2_RunFailsBeforeAnyBatch ==
    [][ /\ (kind' = "run" /\ pc' # "idle"
             /\ (SourceMismatch(inputs', train_iter') \/ SourceMismatch(inputs', valid_iter')))
            => /\ pc' = "raise"
               /\ outcome' = "AssertionError"
               /\ train_iter'.pulled = 0
               /\ valid_iter'.pulled = 0
               /\ solver' = NoSolverCalls
               /\ events' = <<>>
               /\ UNCHANGED Persistent
        /\ (pc = "raise" => UNCHANGED Persistent /\ pc' = "idle")
      ]_vars

C2_Witness ==
    /\ pc = "raise"
    /\ kind = "run"
    /\ ~SourceMismatch(inputs, train_iter)
    /\ valid_iter.present
    /\ valid_iter.variables # inputs.n
    /\ valid_iter.batch_size = inputs.dim

\* C3: whenever the registry was last initialised from an empty mapping or
\* with the metrics argument omitted, it is exactly {"loss": L}, L the loss
\* the session holds.
C3_EmptyMappingYieldsLoss ==
    (pc # "new" /\ (metrics_arg.omitted \/ metrics_arg.map = <<>>)) =>
        Metrics = << <<LossName, loss>> >>

\* b is a with every space replaced by a hyphen and nothing else changed
Hyphenated(a, b) ==
    /\ Len(a) = Len(b)
    /\ \A j \in 1..Len(a) : b[j] = (IF a[j] = " " THEN "-" ELSE a[j])

\* two names of m become the same name once hyphenated
Collide(m) ==
    \E x, y \in DOMAIN m :
        /\ x # y
        /\ Len(m[x][1]) = Len(m[y][1])
        /\ \A j \in 1..Len(m[x][1]) :
              \/ m[x][1][j] = m[y][1][j]
              \/ {m[x][1][j], m[y][1][j]} = {" ", "-"}

KeepsEveryEntry(m, reg) ==
    /\ Len(reg) = Len(m)
    /\ \A k \in 1..Len(m) : Hyphenated(m[k][1], reg[k][1]) /\ reg[k][2] = m[k][2]
    /\ (\A k \in 1..Len(m) : \A j \in 1..Len(m[k][1]) : m[k][1][j] # " ") => reg = m

\* C4 (as stated): for every non-empty mapping the registry holds, in the
\* same order, each entry with its computation under its hyphenated name,
\* and a mapping without spaces is returned unchanged.
C4_EveryMappingKept ==
    (pc = "idle" /\ metrics_arg.map # <<>>) => KeepsEveryEntry(metrics_arg.map, Metrics)

\* C4 (amended): the same, for every non-empty mapping no two names of
\* which become the same name once their spaces are hyphens.
C4_DistinctMappingKept ==
    (pc = "idle" /\ metrics_arg.map # <<>> /\ ~Collide(metrics_arg.map))
        => KeepsEveryEntry(metrics_arg.map, Metrics)

C4_Witness ==
    /\ pc = "idle"
    /\ Len(metrics_arg.map) = 2
    /\ metrics_arg.map[1][1] = <<" ", " ">>
    /\ metrics_arg.map[2][1] = <<"a", "-">>
    /\ Metrics[1][1] = <<"-", "-">>

RECURSIVE HistSum(_, _)
HistSum(c, n) == IF n = 0 THEN 0 ELSE hist[n][c] + HistSum(c, n - 1)

\* C5: the EpochResult _run_one_epoch returns has one key per registered
\* metric, <metric>-train when train and <metric>-valid otherwise, and its
\* value is the sum of the num_batch values the metric had when each batch
\* of this epoch was recorded, divided by num_batch.
C5_EpochResultIsMean ==
    pc = "save_result" =>
        /\ Len(hist) = num_batch
        /\ Len(epoch_result) = Len(Metrics)
        /\ \A k \in 1..Len(Metrics) :
              /\ epoch_result[k][1] =
                    Metrics[k][1] \o (IF train THEN <<"-", "t", "r", "a", "i", "n">>
                                               ELSE <<"-", "v", "a", "l", "i", "d">>)
              /\ epoch_result[k][2] =
                    [num |-> HistSum(Metrics[k][2], num_batch), den |-> num_batch]

C5_Witness ==
    /\ pc = "save_result"
    /\ kind = "run"
    /\ train
    /\ epoch > entry
    /\ num_batch = 2
    /\ hist[1] # hist[2]
    /\ Len(Metrics) = 2

Longest(seqs) ==
    CHOOSE n \in 0..MaxSeqLen :
        /\ \E k \in DOMAIN seqs : Len(seqs[k]) = n
        /\ \A k \in DOMAIN seqs : Len(seqs[k]) <= n

\* C6: with padding_type 'post' or 'pre' and a positive max_sequence_length
\* n (or, when it is omitted, n the length of the longest sequence),
\* with_padding returns one row of length n per sequence: the first
\* min(len, n) elements of the sequence, followed ('post') or preceded
\* ('pre') by zeros.
C6_PaddedRows ==
    (/\ pad.pc = "done"
     /\ pad.padding_type \in {"post", "pre"}
     /\ IF pad.max_sequence_length.given THEN pad.max_sequence_length.value > 0
                                         ELSE Len(pad.sequences) > 0)
    => LET n == IF pad.max_sequence_length.given THEN pad.max_sequence_length.value
                ELSE Longest(pad.sequences)
           rows == pad.result.rows
       IN /\ pad.result.status = "returned"
          /\ Len(rows) = Len(pad.sequences)
          /\ \A k \in 1..Len(rows) :
                LET sq == pad.sequences[k]
                    m == IF Len(sq) < n THEN Len(sq) ELSE n
                IN /\ Len(rows[k]) = n
                   /\ \A j \in 1..n :
                        rows[k][j] =
                            IF pad.padding_type = "post"
                            THEN (IF j <= m THEN sq[j] ELSE 0)
                            ELSE (IF j <= n - m THEN 0 ELSE sq[j - (n - m)])

C6_Witness ==
    /\ pad.pc = "done"
    /\ pad.padding_type = "pre"
    /\ pad.max_sequence_length = [given |-> TRUE, value |-> 1]
    /\ pad.sequences = << <<1, 2>>, <<>> >>
    /\ pad.result.rows = << <<1>>, <<0>> >>

\* C7: every call of with_padding with a padding_type other than 'post'
\* and 'pre' raises and returns no array.
C7_UnsupportedTypeRaises ==
    (pad.pc = "done" /\ pad.padding_type \notin {"post", "pre"})
        => pad.result.status # "returned"

EventShape(e) == <<e.ev, e.train, e.at>>

\* what one iteration of run does while current_epoch is ce
IterationShapes(ce, hasValid) ==
    << <<"epoch", "train", ce>>, <<"save_result", "train", ce>> >>
    \o (IF hasValid THEN << <<"epoch", "valid", ce>>, <<"save_result", "valid", ce>> >>
                    ELSE <<>>)
    \o << <<"save_fig", "", ce>>, <<"snapshot", "", ce>>, <<"increment", "", ce>> >>

RECURSIVE RunShapes(_, _, _)
RunShapes(ce, e, hasValid) ==
    IF e = 0 THEN <<>>
    ELSE IterationShapes(ce, hasValid) \o RunShapes(ce + 1, e - 1, hasValid)

\* C8: the events of a call of run are, iteration after iteration and each
\* once: training epoch, logging of its result, then (with a validation
\* source) validation epoch and logging of its result, then plots, then
\* checkpoint, then increment of current_epoch; each iteration runs with the
\* value current_epoch has at its start, which is also the epoch index
\* passed to the epoch runner; a returning call has done all its iterations.
C8_IterationOrder ==
    kind = "run" =>
        LET expected == RunShapes(entry, epochs, valid_iter.present) IN
        /\ Len(events) <= Len(expected)
        /\ \A k \in 1..Len(events) :
              /\ EventShape(events[k]) = expected[k]
              /\ events[k].ev = "epoch" => events[k].epoch = events[k].at
        /\ pc = "return" => Len(events) = Len(expected)

C8_Witness ==
    /\ kind = "run"
    /\ pc = "return"
    /\ epochs = 2
    /\ valid_iter.present
    /\ Len(events) = 14

\* C9: a call of evaluate makes no solver call and leaves current_epoch,
\* the checkpoints and the metric registry as they are; when it returns it
\* has run one validation epoch with epoch index current_epoch - 1, logged
\* its result and rendered the plots, in this order and nothing else.
C9_EvaluateFrame ==
    [][ (kind = "evaluate" \/ kind' = "evaluate") =>
            /\ UNCHANGED <<current_epoch, checkpoints, metricsRef, ownMetrics, defaultMetrics>>
            /\ solver' = NoSolverCalls
            /\ pc' = "return" =>
                  /\ events' = << Event("epoch", "valid", current_epoch - 1, current_epoch),
                                  Event("save_result", "valid", current_epoch, current_epoch),
                                  Event("save_fig", "", current_epoch, current_epoch) >>
                  /\ produced' = [train |-> 0, valid |-> 1]
                  /\ logged' = [train |-> 0, valid |-> 1]
      ]_vars

C9_Witness ==
    /\ kind = "evaluate"
    /\ pc = "return"
    /\ num_batch = 2
    /\ valid_iter.pulled = 2
    /\ Len(checkpoints) > 0

\* C10: the checkpoints written so far are, in order, those numbered
\* first_epoch + 1, first_epoch + 2, ...: one per completed iteration of
\* run (current_epoch - first_epoch of them, and one more between a write and
\* the increment that follows), each numbered current_epoch + 1 at its
\* write, no number used twice.
C10_OneCheckpointPerEpoch ==
    LET n == current_epoch - first_epoch + (IF pc = "incr" THEN 1 ELSE 0) IN
    /\ checkpoints = [k \in 1..n |-> first_epoch + k]
    /\ \A x, y \in DOMAIN checkpoints : x # y => checkpoints[x] # checkpoints[y]
    /\ pc = "incr" => checkpoints[Len(checkpoints)] = current_epoch + 1

C10_Witness ==
    /\ pc = "idle"
    /\ calls = 2
    /\ first_epoch = 1
    /\ checkpoints = <<2, 3, 4>>

\* The series of a key: the epoch indices added to it so far.
SeriesOf(series, key) == IF DictHas(series, key) THEN DictGet(series, key) ELSE <<>>

NonDecreasing(xs) == \A x, y \in DOMAIN xs : x < y => xs[x] <= xs[y]

C12_BatchSteps ==
    pc = "batch" /\ i > 0 =>
        LET n == Len(Metrics)
            extra == IF train /\ (\A k \in 1..n : Metrics[k][2] # loss) THEN 1 ELSE 0
        IN /\ Len(ops) = 1 + n + (IF train THEN extra + 3 ELSE 0)
           /\ ops[1] = <<"next", "">>
           /\ \A k \in 1..n : ops[1 + k] = <<"forward", Metrics[k][2]>>
           /\ train =>
                 /\ extra = 1 => ops[n + 2] = <<"forward", loss>>
                 /\ ops[n + extra + 2] = <<"zero_grad", "">>
                 /\ ops[n + extra + 3] = <<"backward", loss>>
                 /\ ops[n + extra + 4] = <<"update", "">>
           /\ ~ train => \A k \in DOMAIN ops : ops[k][1] \in {"next", "forward"}

\* a training batch of a session whose loss is not a registered metric
C12_Witness ==
    /\ pc = "batch"
    /\ i = 2
    /\ train
    /\ \A k \in 1..Len(Metrics) : Metrics[k][2] # loss
    /\ Len(ops) = Len(Metrics) + 5
    /\ solver.update = 2

\* The EpochResults run has returned when it is in the iteration of
\* current_epoch ce, entered at e0, with its training pass done or not.
PassesDone(ce, e0, trainDone, hasValid) ==
    [train |-> ce - e0 + (IF trainDone THEN 1 ELSE 0),
     valid |-> IF hasValid THEN ce - e0 ELSE 0]

\* C13: when the pull of a batch or a forward, zero_grad, backward or
\* update call raises during an epoch pass, the exception leaves run or
\* evaluate (the call ends with it, nothing more is done); the pass returns
\* and logs no EpochResult, so the results returned and logged are those of
\* the passes completed before; the raising batch applies no parameter
\* update; current_epoch, the series, the plots and the checkpoints stay as
\* they were, and no checkpoint numbered current_epoch + 1 exists.
C13_FailedPassLeavesNoTrace ==
    [][ /\ (pc = "batch" /\ pc' = "raise") =>
              /\ outcome' = "Exception"
              /\ UNCHANGED <<Persistent, produced, logged, epoch_result, added>>
              /\ solver'.update = solver.update
              /\ produced' = logged'
              /\ produced' = IF kind = "run"
                             THEN PassesDone(current_epoch, entry, ~ train, valid_iter.present)
                             ELSE NoResults
              /\ \A k \in DOMAIN checkpoints' : checkpoints'[k] # current_epoch' + 1
        /\ (pc = "raise" /\ outcome = "Exception") =>
              /\ pc' = "idle"
              /\ outcome' = "Exception"
              /\ epoch_result' = <<>>
              /\ UNCHANGED Persistent
      ]_vars

\* the update call of a training batch raised in the second iteration of a
\* run, after a first iteration that logged results and wrote a checkpoint
C13_Witness ==
    /\ pc = "raise"
    /\ outcome = "Exception"
    /\ kind = "run"
    /\ train
    /\ ops[Len(ops)] = <<"update", "">>
    /\ current_epoch = entry + 1
    /\ checkpoints # <<>>
    /\ monitor_series # <<>>

\* a and b become the same name once every space is a hyphen
SameHyphenated(a, b) ==
    /\ Len(a) = Len(b)
    /\ \A j \in 1..Len(a) :
          (IF a[j] = " " THEN "-" ELSE a[j]) = (IF b[j] = " " THEN "-" ELSE b[j])

\* C14 (as stated): the registry has no two entries of one name and no
\* name with a space; when two names of the mapping become the same name
\* once hyphenated, the registry holds one entry under that name, with the
\* computation of the later one, and the collision is flagged: the
\* construction raises or reports the colliding names.
C14_CollisionFlagged ==
    pc = "idle" =>
        LET m == metrics_arg.map IN
        /\ \A x, y \in DOMAIN Metrics : x # y => Metrics[x][1] # Metrics[y][1]
        /\ \A x \in DOMAIN Metrics : \A j \in DOMAIN Metrics[x][1] : Metrics[x][1][j] # " "
        /\ \A x, y \in DOMAIN m :
              (x < y /\ SameHyphenated(m[x][1], m[y][1])
                     /\ \A z \in DOMAIN m : z > y => ~ SameHyphenated(m[y][1], m[z][1]))
              => \E k \in DOMAIN Metrics :
                    /\ Hyphenated(m[y][1], Metrics[k][1])
                    /\ Metrics[k][2] = m[y][2]
        /\ Collide(m) => (outcome # "constructed" \/ InitMetricsFlagged(m, loss) # {})

\* w2i and i2w are inverse of each other, their indices are exactly
\* 0..len(w2i)-1, and every word known before the last load has kept its
\* index.
VocabularyConsistent ==
    LET w2i == vocab.w2i
        i2w == vocab.i2w
    IN /\ \A x, y \in DOMAIN w2i : x # y => w2i[x][1] # w2i[y][1]
       /\ \A x, y \in DOMAIN i2w : x # y => i2w[x][1] # i2w[y][1]
       /\ \A k \in DOMAIN w2i : \E j \in DOMAIN i2w : i2w[j] = <<w2i[k][2], w2i[k][1]>>
       /\ \A j \in DOMAIN i2w : \E k \in DOMAIN w2i : w2i[k] = <<i2w[j][2], i2w[j][1]>>
       /\ {w2i[k][2] : k \in DOMAIN w2i} = 0..(Len(w2i) - 1)
       /\ \A k \in DOMAIN vocab.before : \E j \in DOMAIN w2i : w2i[j] = vocab.before[k]

\* xs holds, position by position, the index of the word read there
IndexesWords(xs) ==
    \A p \in DOMAIN xs :
        /\ p \in DOMAIN vocab.words
        /\ \E k \in DOMAIN vocab.w2i : vocab.w2i[k] = <<vocab.words[p], xs[p]>>

RECURSIVE Concat(_)
Concat(seqs) == IF Len(seqs) = 0 THEN <<>> ELSE Head(seqs) \o Concat(Tail(seqs))

\* C15 (as stated): after every load the vocabulary is consistent and every
\* element of what the load returns (the index array of load_data, the
\* sentences of _load_data read one after the other) is the index of the
\* word at that position.
C15_ReturnedIndexesWords ==
    vocab.kind # "none" =>
        /\ VocabularyConsistent
        /\ IndexesWords(IF vocab.kind = "ptb" THEN Concat(vocab.returned)
                                              ELSE vocab.returned)

\* C15 (amended): after every load the vocabulary is consistent and the
\* index array the load builds has one element per word read, the index of
\* the word at that position; load_data returns this array; _load_data
\* returns it cut after each <eos>, without the words that follow the last
\* <eos>, each sentence preceded by the index of <bos> when with_bos.
C15_DatasetIndexesWords ==
    vocab.kind # "none" =>
        LET ds  == vocab.dataset
            eos == {p \in DOMAIN ds : vocab.words[p] = EosWord}
            bos == IF vocab.with_bos THEN 1 ELSE 0
            body(sq) == SubSeq(sq, bos + 1, Len(sq))
        IN /\ VocabularyConsistent
           /\ Len(ds) = Len(vocab.words)
           /\ IndexesWords(ds)
           /\ vocab.kind = "lstmlm" => vocab.returned = ds
           /\ vocab.kind = "ptb" =>
                 /\ Len(vocab.returned) = Cardinality(eos)
                 /\ \A k \in DOMAIN vocab.returned :
                       /\ Len(vocab.returned[k]) > bos
                       /\ vocab.with_bos => \E j \in DOMAIN vocab.w2i :
                             vocab.w2i[j] = <<BosWord, vocab.returned[k][1]>>
                 /\ Concat([k \in DOMAIN vocab.returned |-> body(vocab.returned[k])])
                       = SubSeq(ds, 1, IF eos = {} THEN 0
                                       ELSE CHOOSE p \in eos : \A q \in eos : q <= p)

\* the third load of a PTBDataset with <bos>: a word known since the first
\* load and <eos>, after a second load that added a word
C15_Witness ==
    /\ vocab.kind = "ptb"
    /\ vocab.with_bos
    /\ vocab.loads = 3
    /\ Len(vocab.w2i) = 5
    /\ vocab.before = vocab.w2i
    /\ vocab.words = << <<"a">>, EosWord >>
    /\ vocab.returned = << <<2, 3, 1>> >>

====
